---- MODULE Spec2Model ----
(***************************************************************************)
(* tbuck: timestamps are floored to buckets of a fixed granularity and     *)
(* counted, either in a table printed at the end (normal mode) or live as  *)
(* buckets close (stream mode).  Model of Granularity, Runner and the      *)
(* main loop of src/main.rs.                                               *)
(*                                                                         *)
(* A DateTime<Utc> is the number of seconds since midnight of day 0 of the *)
(* model's calendar; a row of stdout is <<bucket, count>>.                 *)
(***************************************************************************)
EXTENDS Integers, Sequences, FiniteSets, TLC

VARIABLES args, runner, stdout, pc, input, branch, line, call, reader

vars == <<args, runner, stdout, pc, input, branch, line, call, reader>>

(* ------------------------------ bounds --------------------------------- *)

\* Number of lines with a parsed timestamp that one run reads.
MaxEntries == 4

(* -------------------------------- Option -------------------------------- *)

\* Option<T>: <<>> is None, <<v>> is Some(v).
None == <<>>

Some(b) == <<b>>

(* --------------------------- chrono DateTime --------------------------- *)

date(datetime) == datetime \div 86400

hour(datetime) == (datetime \div 3600) % 24

minute(datetime) == (datetime \div 60) % 60

second(datetime) == datetime % 60

and_hms(d, h, m, s) == d * 86400 + h * 3600 + m * 60 + s

\* chrono::MAX_DATE.and_hms(0, 0, 0): midnight of the last representable day,
\* later than every timestamp of the input.
MAX_DATE == and_hms(24855, 0, 0, 0)

(* ----------------------------- Granularity ----------------------------- *)

Second(n) == [n |-> n, unit |-> "Second"]

Minute(n) == [n |-> n, unit |-> "Minute"]

Hour(n) == [n |-> n, unit |-> "Hour"]

\* A &str is the sequence of its characters.
Digits == {"0", "1", "2", "3", "4", "5", "6", "7", "8", "9"}

digit_value(c) ==
    CASE c = "0" -> 0 [] c = "1" -> 1 [] c = "2" -> 2 [] c = "3" -> 3 [] c = "4" -> 4
      [] c = "5" -> 5 [] c = "6" -> 6 [] c = "7" -> 7 [] c = "8" -> 8 [] c = "9" -> 9

\* str::find(char): the index (from 0) of the first occurrence, if any.
find(text, c) ==
    IF \E i \in 1..Len(text) : text[i] = c
    THEN Some((CHOOSE i \in 1..Len(text) :
                  text[i] = c /\ \A j \in 1..(i - 1) : text[j] # c) - 1)
    ELSE None

\* text.split_at(index).0
split_at_0(text, index) == SubSeq(text, 1, index)

RECURSIVE strip_zeros(_)
strip_zeros(digits) ==
    IF digits # <<>> /\ Head(digits) = "0" THEN strip_zeros(Tail(digits)) ELSE digits

RECURSIVE number_of(_)
number_of(digits) ==
    IF digits = <<>> THEN 0
    ELSE number_of(SubSeq(digits, 1, Len(digits) - 1)) * 10
         + digit_value(digits[Len(digits)])

\* u32::MAX = 4294967295, by its digits.
U32_MAX_DIGITS == <<"4", "2", "9", "4", "9", "6", "7", "2", "9", "5">>

\* The number written by digits is above u32::MAX: the checked
\* multiplication or addition of u32::from_str overflows.
overflows_u32(digits) ==
    LET d == strip_zeros(digits)
    IN \/ Len(d) > Len(U32_MAX_DIGITS)
       \/ /\ Len(d) = Len(U32_MAX_DIGITS)
          /\ \E i \in 1..Len(d) :
                /\ digit_value(d[i]) > digit_value(U32_MAX_DIGITS[i])
                /\ \A j \in 1..(i - 1) : d[j] = U32_MAX_DIGITS[j]

\* str::parse::<u32>().ok(): an optional '+', then one or more digits, the
\* value within u32.  (number_of is evaluated on numbers up to 2^31 - 1 only,
\* the integers of the model checker.)
parse_u32(src) ==
    LET digits == IF src # <<>> /\ Head(src) = "+" THEN Tail(src) ELSE src
    IN IF digits = <<>> THEN None
       ELSE IF \E i \in 1..Len(digits) : digits[i] \notin Digits THEN None
       ELSE IF overflows_u32(digits) THEN None
       ELSE Some(number_of(digits))

\* Option::and_then(NonZeroU32::new)
and_then_nonzero(value) ==
    IF value = None \/ value[1] = 0 THEN None ELSE value

\* parse with the 'm' arm building a Granularity::Second.
parse_minute_as_second(text) ==
    IF find(text, "s") # None
    THEN LET n == and_then_nonzero(parse_u32(split_at_0(text, find(text, "s")[1])))
         IN IF n = None THEN None ELSE Some(Second(n[1]))
    ELSE IF find(text, "m") # None
    THEN LET n == and_then_nonzero(parse_u32(split_at_0(text, find(text, "m")[1])))
         IN IF n = None THEN None ELSE Some(Second(n[1]))
    ELSE IF find(text, "h") # None
    THEN LET n == and_then_nonzero(parse_u32(split_at_0(text, find(text, "h")[1])))
         IN IF n = None THEN None ELSE Some(Hour(n[1]))
    ELSE None

\* parse without .and_then(NonZeroU32::new): a magnitude of 0 is accepted.
parse_accepting_zero(text) ==
    IF find(text, "s") # None
    THEN LET n == parse_u32(split_at_0(text, find(text, "s")[1]))
         IN IF n = None THEN None ELSE Some(Second(n[1]))
    ELSE IF find(text, "m") # None
    THEN LET n == parse_u32(split_at_0(text, find(text, "m")[1]))
         IN IF n = None THEN None ELSE Some(Minute(n[1]))
    ELSE IF find(text, "h") # None
    THEN LET n == parse_u32(split_at_0(text, find(text, "h")[1]))
         IN IF n = None THEN None ELSE Some(Hour(n[1]))
    ELSE None

\* Granularity::parse
parse(text) ==
    IF find(text, "s") # None
    THEN LET n == and_then_nonzero(parse_u32(split_at_0(text, find(text, "s")[1])))
         IN IF n = None THEN None ELSE Some(Second(n[1]))
    ELSE IF find(text, "m") # None
    THEN LET n == and_then_nonzero(parse_u32(split_at_0(text, find(text, "m")[1])))
         IN IF n = None THEN None ELSE Some(Minute(n[1]))
    ELSE IF find(text, "h") # None
    THEN LET n == and_then_nonzero(parse_u32(split_at_0(text, find(text, "h")[1])))
         IN IF n = None THEN None ELSE Some(Hour(n[1]))
    ELSE None

\* bucketize with the seconds kept in the Minute arm.
bucketize_keeping_seconds(g, datetime) ==
    CASE g.unit = "Second" ->
            and_hms(date(datetime), hour(datetime), minute(datetime),
                    (second(datetime) \div g.n) * g.n)
      [] g.unit = "Minute" ->
            and_hms(date(datetime), hour(datetime),
                    (minute(datetime) \div g.n) * g.n, second(datetime))
      [] g.unit = "Hour" ->
            and_hms(date(datetime), (hour(datetime) \div g.n) * g.n, 0, 0)

bucketize(g, datetime) ==
    CASE g.unit = "Second" ->
            and_hms(date(datetime), hour(datetime), minute(datetime),
                    (second(datetime) \div g.n) * g.n)
      [] g.unit = "Minute" ->
            and_hms(date(datetime), hour(datetime),
                    (minute(datetime) \div g.n) * g.n, 0)
      [] g.unit = "Hour" ->
            and_hms(date(datetime), (hour(datetime) \div g.n) * g.n, 0, 0)

successor(g, datetime) ==
    CASE g.unit = "Second" -> datetime + g.n
      [] g.unit = "Minute" -> datetime + g.n * 60
      [] g.unit = "Hour"   -> datetime + g.n * 3600

(* -------------------------------- Runner ------------------------------- *)

from_mode(mode) ==
    IF mode = "Normal"
    THEN [kind |-> "Normal", buckets |-> <<>>]
    ELSE [bucket |-> None, kind |-> "Stream", count |-> 0]

\* *buckets.entry(entry).or_insert(0) += 1
record_entry(buckets, entry) ==
    IF entry \in DOMAIN buckets
    THEN [buckets EXCEPT ![entry] = @ + 1]
    ELSE buckets @@ (entry :> 0 + 1)

\* stream_fill, but the bucket of the entry gets a zero row too.
RECURSIVE stream_fill_inclusive(_, _, _)
stream_fill_inclusive(g, next_bucket, entry) ==
    IF next_bucket <= entry
    THEN <<<<next_bucket, 0>>>>
         \o stream_fill_inclusive(g, successor(g, next_bucket), entry)
    ELSE <<>>

\* The while loop of stream mode: a zero row for next_bucket, then its
\* successor, as long as next_bucket < entry.
RECURSIVE stream_fill(_, _, _)
stream_fill(g, next_bucket, entry) ==
    IF next_bucket < entry
    THEN <<<<next_bucket, 0>>>> \o stream_fill(g, successor(g, next_bucket), entry)
    ELSE <<>>

\* entry_ordering without the arms of the non-monotonic entry: every other
\* bucket closes the current one.
entry_ordering_unordered(order, entry, current_bucket) ==
    IF entry = current_bucket THEN "same" ELSE "advance"

\* The match on (args.order, entry.cmp(current_bucket)).
entry_ordering(order, entry, current_bucket) ==
    CASE entry = current_bucket -> "same"
      [] (order = "Ascending" /\ entry < current_bucket)
         \/ (order = "Descending" /\ entry > current_bucket) -> "nonmonotonic"
      [] (order = "Ascending" /\ entry > current_bucket)
         \/ (order = "Descending" /\ entry < current_bucket) -> "advance"

\* Each arm of handle_bucket_entry gives the runner afterwards, the rows
\* written to stdout, whether the call panicked, and the arm taken.

\* normal_entry, but an entry before a bucket already recorded is dropped.
normal_entry_monotonic(r, entry) ==
    [runner |-> IF \E b \in DOMAIN r.buckets : b > entry
                THEN r
                ELSE [r EXCEPT !.buckets = record_entry(r.buckets, entry)],
     branch |-> "record", written |-> <<>>, panic |-> FALSE]

\* Runner::Normal
normal_entry(r, entry) ==
    [runner |-> [r EXCEPT !.buckets = record_entry(r.buckets, entry)],
     branch |-> "record", written |-> <<>>, panic |-> FALSE]

\* first_entry, but the row of the new bucket is printed at once.
first_entry_printing(r, entry) ==
    [runner |-> [r EXCEPT !.bucket = Some(entry), !.count = 1],
     branch |-> "first",
     written |-> <<<<entry, 1>>>>, panic |-> FALSE]

\* bucket is None: the first entry.
first_entry(r, entry) ==
    [runner |-> [r EXCEPT !.bucket = Some(entry), !.count = 1],
     branch |-> "first", written |-> <<>>, panic |-> FALSE]

\* same_entry, but the count is set to 1.
same_entry_resetting(r) ==
    [runner |-> [r EXCEPT !.count = 1],
     branch |-> "same", written |-> <<>>, panic |-> FALSE]

\* (_, Ordering::Equal)
same_entry(r) ==
    [runner |-> [r EXCEPT !.count = @ + 1],
     branch |-> "same", written |-> <<>>, panic |-> FALSE]

\* nonmonotonic_entry with the test of args.tolerant inverted.
nonmonotonic_entry_inverted(r, a) ==
    [runner |-> r, branch |-> "nonmonotonic", written |-> <<>>, panic |-> a.tolerant]

\* nonmonotonic_entry, but the open bucket is printed before the panic.
nonmonotonic_entry_flushing(r, a) ==
    [runner |-> r,
     branch |-> "nonmonotonic",
     written |-> IF a.tolerant THEN <<>> ELSE <<<<r.bucket[1], r.count>>>>,
     panic |-> ~a.tolerant]

\* nonmonotonic_entry, but a tolerated entry is counted in the open bucket.
nonmonotonic_entry_counting(r, a) ==
    [runner |-> IF a.tolerant THEN [r EXCEPT !.count = @ + 1] ELSE r,
     branch |-> "nonmonotonic", written |-> <<>>, panic |-> ~a.tolerant]

\* (Ascending, Less) | (Descending, Greater): panic unless tolerant.
nonmonotonic_entry(r, a) ==
    [runner |-> r, branch |-> "nonmonotonic", written |-> <<>>, panic |-> ~a.tolerant]

\* advance_entry, but the zero rows are printed before the closed bucket.
advance_entry_gaps_first(r, entry, a) ==
    LET current_bucket == r.bucket[1]
    IN [runner |-> [r EXCEPT !.count = 1, !.bucket = Some(entry)],
        branch |-> "advance",
        written |-> (IF a.fill_empty_buckets
                     THEN stream_fill(a.granularity,
                                      successor(a.granularity, current_bucket),
                                      entry)
                     ELSE <<>>) \o <<<<current_bucket, r.count>>>>,
        panic |-> FALSE]

\* advance_entry without the test of args.fill_empty_buckets.
advance_entry_always_filling(r, entry, a) ==
    LET current_bucket == r.bucket[1]
    IN [runner |-> [r EXCEPT !.count = 1, !.bucket = Some(entry)],
        branch |-> "advance",
        written |-> <<<<current_bucket, r.count>>>> \o
                    stream_fill(a.granularity,
                                successor(a.granularity, current_bucket), entry),
        panic |-> FALSE]

\* (Ascending, Greater) | (Descending, Less): print bucket(s) and advance.
advance_entry(r, entry, a) ==
    LET current_bucket == r.bucket[1]
    IN [runner |-> [r EXCEPT !.count = 1, !.bucket = Some(entry)],
        branch |-> "advance",
        written |-> <<<<current_bucket, r.count>>>> \o
                    (IF a.fill_empty_buckets
                     THEN stream_fill(a.granularity,
                                      successor(a.granularity, current_bucket),
                                      entry)
                     ELSE <<>>),
        panic |-> FALSE]

\* Runner::handle_bucket_entry
handle_bucket_entry(r, entry, a) ==
    IF r.kind = "Normal" THEN normal_entry(r, entry)
    ELSE IF r.bucket = None THEN first_entry(r, entry)
    ELSE LET rel == entry_ordering(a.order, entry, r.bucket[1])
         IN CASE rel = "same" -> same_entry(r)
              [] rel = "nonmonotonic" -> nonmonotonic_entry(r, a)
              [] rel = "advance" -> advance_entry(r, entry, a)

\* sorts_before, but ascending whatever the order.
sorts_before_ascending(order, l, r) == l < r

\* sort_unstable_by on the bucket: l.0.cmp(&r.0) ascending, r.0.cmp(&l.0)
\* descending.  The keys of a map are distinct, so the result is unique.
sorts_before(order, l, r) ==
    IF order = "Ascending" THEN l < r ELSE r < l

RECURSIVE sort_by(_, _)
sort_by(order, keys) ==
    IF keys = {} THEN <<>>
    ELSE LET head == CHOOSE l \in keys :
                        \A r \in keys \ {l} : sorts_before(order, l, r)
         IN <<head>> \o sort_by(order, keys \ {head})

ordered_buckets(buckets, order) ==
    LET keys == sort_by(order, DOMAIN buckets)
    IN [i \in 1..Len(keys) |-> <<keys[i], buckets[keys[i]]>>]

\* normal_fill with <= for <: a zero row for the recorded bucket as well.
RECURSIVE normal_fill_inclusive(_, _, _)
normal_fill_inclusive(g, prev_bucket, bucket) ==
    IF prev_bucket <= bucket
    THEN <<<<prev_bucket, 0>>>> \o normal_fill_inclusive(g, successor(g, prev_bucket), bucket)
    ELSE <<>>

\* The while loop of normal mode: zero rows from prev_bucket up to bucket.
RECURSIVE normal_fill(_, _, _)
normal_fill(g, prev_bucket, bucket) ==
    IF prev_bucket < bucket
    THEN <<<<prev_bucket, 0>>>> \o normal_fill(g, successor(g, prev_bucket), bucket)
    ELSE <<>>

\* write_ordered, but the bucket after the last recorded one is filled too.
RECURSIVE write_ordered_trailing(_, _, _, _)
write_ordered_trailing(ordered, i, prev_bucket, a) ==
    IF i > Len(ordered)
    THEN IF a.fill_empty_buckets /\ ordered # <<>> THEN <<<<prev_bucket, 0>>>> ELSE <<>>
    ELSE LET bucket == ordered[i][1]
             count  == ordered[i][2]
         IN (IF a.fill_empty_buckets
             THEN normal_fill(a.granularity, prev_bucket, bucket)
             ELSE <<>>)
            \o <<<<bucket, count>>>>
            \o write_ordered_trailing(ordered, i + 1, successor(a.granularity, bucket), a)

\* The for loop of normal mode over ordered_buckets[i..], with prev_bucket.
RECURSIVE write_ordered(_, _, _, _)
write_ordered(ordered, i, prev_bucket, a) ==
    IF i > Len(ordered) THEN <<>>
    ELSE LET bucket == ordered[i][1]
             count  == ordered[i][2]
         IN (IF a.fill_empty_buckets
             THEN normal_fill(a.granularity, prev_bucket, bucket)
             ELSE <<>>)
            \o <<<<bucket, count>>>>
            \o write_ordered(ordered, i + 1, successor(a.granularity, bucket), a)

\* finish, but stream mode prints a zero row after the open bucket.
finish_trailing_fill(r, a) ==
    IF r.kind = "Normal"
    THEN write_ordered(ordered_buckets(r.buckets, a.order), 1, MAX_DATE, a)
    ELSE IF r.bucket # None
         THEN <<<<r.bucket[1], r.count>>>> \o
              (IF a.fill_empty_buckets
               THEN <<<<successor(a.granularity, r.bucket[1]), 0>>>> ELSE <<>>)
         ELSE <<>>

\* Runner::finish: the rows written to stdout.
finish(r, a) ==
    IF r.kind = "Normal"
    THEN write_ordered(ordered_buckets(r.buckets, a.order), 1, MAX_DATE, a)
    ELSE IF r.bucket # None
         THEN <<<<r.bucket[1], r.count>>>>
         ELSE <<>>

(* ------------------------------- inputs -------------------------------- *)

\* The timestamps found in the input lines.
Instants ==
    { and_hms(0, 9, 59, 0),  and_hms(0, 10, 0, 0),  and_hms(0, 10, 0, 30),
      and_hms(0, 10, 0, 45), and_hms(0, 10, 2, 0),  and_hms(0, 10, 7, 20) }

Granularities == { Second(30), Minute(1), Minute(7), Hour(1) }

\* parse_args: --tolerant requires --stream; --match-index is 0 by default.
ArgsSet ==
    { a \in [match_index : {0},
             granularity : Granularities,
             fill_empty_buckets : BOOLEAN,
             mode : {"Normal", "Stream"},
             order : {"Ascending", "Descending"},
             tolerant : BOOLEAN] :
        a.tolerant => a.mode = "Stream" }

(* ------------------------------- main ---------------------------------- *)

\* A match of the regex in a line is the text found; of the text the model
\* keeps what DateTimeFormat::try_parse makes of it.
Match(datetime) == [datetime |-> datetime, parses |-> TRUE]

BadMatch == [datetime |-> 0, parses |-> FALSE]

\* try_parse, but a text that does not parse gives a default datetime.
try_parse_defaulting(match_) == Some(match_.datetime)

\* args.datetime_format.try_parse(match_.as_str()): Ok(datetime) or Err.
try_parse(match_) == IF match_.parses THEN Some(match_.datetime) ELSE None

\* skip that drops one element more.
skip_one_more(matches, n) ==
    IF n + 1 >= Len(matches) THEN <<>> ELSE SubSeq(matches, n + 2, Len(matches))

\* Iterator::skip(n)
skip(matches, n) ==
    IF n >= Len(matches) THEN <<>> ELSE SubSeq(matches, n + 1, Len(matches))

\* Iterator::nth(n)
nth(matches, n) == IF n < Len(matches) THEN Some(matches[n + 1]) ELSE None

\* regex.find_iter(&line).skip(args.match_index).nth(0); a line is the
\* sequence of its non-overlapping matches, left to right.
find_match(matches, match_index) == nth(skip(matches, match_index), 0)

\* No function of the program is being applied on its own.
NoCall == [fn |-> "none"]

\* The lines come from standard input as the environment gives them: no
\* position in args.inputs is kept.
NoReader == <<0, 0>>

Init ==
    /\ args \in ArgsSet
    /\ runner = from_mode(args.mode)
    /\ stdout = <<>>
    /\ pc = "reading"
    /\ input = <<>>
    /\ branch = "start"
    /\ line = <<>>
    /\ call = NoCall
    /\ reader = NoReader

\* One iteration of the read loop, on the line with these matches: a line
\* without a match at match_index is skipped, and so is one whose match does
\* not parse (with a message on stderr); otherwise the bucket is handled.
ReadLine(matches) ==
    /\ pc = "reading"
    /\ Len(input) < MaxEntries
    /\ line' = matches
    /\ LET match_ == find_match(matches, args.match_index)
       IN IF match_ = None
          THEN /\ branch' = "nomatch"
               /\ UNCHANGED <<runner, stdout, pc, input>>
          ELSE IF try_parse(match_[1]) = None
          THEN /\ branch' = "parsefail"
               /\ UNCHANGED <<runner, stdout, pc, input>>
          ELSE LET datetime == try_parse(match_[1])[1]
                   bucket   == bucketize(args.granularity, datetime)
                   res      == handle_bucket_entry(runner, bucket, args)
               IN /\ runner' = res.runner
                  /\ stdout' = stdout \o res.written
                  /\ pc' = IF res.panic THEN "panicked" ELSE "reading"
                  /\ branch' = res.branch
                  /\ input' = Append(input, datetime)
    /\ UNCHANGED <<args, call>>

\* One iteration of the read loop on a line whose one match parses to datetime.
HandleLine(datetime) == ReadLine(<<Match(datetime)>>) /\ UNCHANGED reader

\* End of the last input: runner.finish(&args).
Finish ==
    /\ pc = "reading"
    /\ stdout' = stdout \o finish(runner, args)
    /\ pc' = "finished"
    /\ branch' = "finish"
    /\ UNCHANGED <<args, runner, input, line, call>>

\* read_line gives 0 on standard input, the only input: the loops end.
EndOfStdin == Finish /\ UNCHANGED reader

Next ==
    \/ \E datetime \in Instants : HandleLine(datetime)
    \/ EndOfStdin

Spec == Init /\ [][Next]_vars

\* The read loop of main over lines with these timestamps, one match each:
\* the runner and the rows written when it ends, and whether it panicked.
RECURSIVE read_loop(_, _, _, _)
read_loop(r, written, datetimes, a) ==
    IF datetimes = <<>>
    THEN [runner |-> r, written |-> written, panic |-> FALSE]
    ELSE LET res == handle_bucket_entry(
                        r, bucketize(a.granularity, Head(datetimes)), a)
         IN IF res.panic
            THEN [runner |-> res.runner, written |-> written \o res.written,
                  panic |-> TRUE]
            ELSE read_loop(res.runner, written \o res.written, Tail(datetimes), a)

\* What main writes to stdout for these lines: the rows of the read loop and,
\* unless it panicked, those of runner.finish(&args).
main_output(datetimes, a) ==
    LET looped == read_loop(from_mode(a.mode), <<>>, datetimes, a)
    IN IF looped.panic THEN looped.written
       ELSE looped.written \o finish(looped.runner, a)

(* ------------------ main on lines with several matches ------------------ *)

\* Matches per line.
MaxMatches == 2

\* Largest --match-index.
MaxMatchIndex == 1

LineInstants == { and_hms(0, 9, 59, 0), and_hms(0, 10, 0, 30), and_hms(0, 10, 2, 0) }

\* The other matches of a line: a timestamp of their own, or text that does
\* not parse.
Fillers == { Match(and_hms(0, 10, 7, 20)), BadMatch }

\* Lines of up to MaxMatches matches: one match is a LineInstant or does not
\* parse, the others are fillers.
Lines ==
    { <<>> } \cup
    UNION { { [j \in 1..k |-> IF j = i THEN m ELSE f] :
                i \in 1..k,
                m \in { Match(t) : t \in LineInstants } \cup { BadMatch },
                f \in Fillers } :
            k \in 1..MaxMatches }

LineArgsSet ==
    { a \in [match_index : 0..MaxMatchIndex,
             granularity : { Minute(1) },
             fill_empty_buckets : BOOLEAN,
             mode : {"Normal", "Stream"},
             order : {"Ascending", "Descending"},
             tolerant : BOOLEAN] :
        a.tolerant => a.mode = "Stream" }

LineInit ==
    /\ args \in LineArgsSet
    /\ runner = from_mode(args.mode)
    /\ stdout = <<>>
    /\ pc = "reading"
    /\ input = <<>>
    /\ branch = "start"
    /\ line = <<>>
    /\ call = NoCall
    /\ reader = NoReader

\* One line of standard input, with these matches.
ReadStdinLine(matches) == ReadLine(matches) /\ UNCHANGED reader

LineNext ==
    \/ \E matches \in Lines : ReadStdinLine(matches)
    \/ EndOfStdin

LineSpec == LineInit /\ [][LineNext]_vars

(* ----------------------- main on several inputs -------------------------- *)

\* Input files of a run.
MaxInputs == 2

\* Lines of an input file.
MaxSourceLines == 2

\* The timestamps of the lines of the input files: two buckets of a minute.
SourceInstants == { and_hms(0, 10, 0, 30), and_hms(0, 10, 2, 0) }

\* An input file is the sequence of its lines, each with one timestamp.
Sources == UNION { [1..n -> SourceInstants] : n \in 0..MaxSourceLines }

\* args.inputs: the input files in the order of the command line.
SourceArgsSet ==
    { a \in [match_index : {0},
             granularity : { Minute(1) },
             fill_empty_buckets : BOOLEAN,
             mode : {"Normal", "Stream"},
             order : {"Ascending", "Descending"},
             tolerant : BOOLEAN,
             inputs : UNION { [1..n -> Sources] : n \in 1..MaxInputs }] :
        a.tolerant => a.mode = "Stream" }

\* reader is <<i, n>>: the for loop is at args.inputs[i], of which n lines
\* have been read.
SourceInit ==
    /\ args \in SourceArgsSet
    /\ runner = from_mode(args.mode)
    /\ stdout = <<>>
    /\ pc = "reading"
    /\ input = <<>>
    /\ branch = "start"
    /\ line = <<>>
    /\ call = NoCall
    /\ reader = <<1, 0>>

\* read_line gives the next line of the input being read: one iteration of
\* the read loop.
ReadSourceLine ==
    /\ reader[1] <= Len(args.inputs)
    /\ reader[2] < Len(args.inputs[reader[1]])
    /\ ReadLine(<<Match(args.inputs[reader[1]][reader[2] + 1])>>)
    /\ reader' = <<reader[1], reader[2] + 1>>

\* EndOfSource, but every input gets a runner of its own.
EndOfSource_new_runner ==
    /\ pc = "reading"
    /\ reader[1] <= Len(args.inputs)
    /\ reader[2] = Len(args.inputs[reader[1]])
    /\ reader' = <<reader[1] + 1, 0>>
    /\ branch' = "break"
    /\ runner' = from_mode(args.mode)
    /\ UNCHANGED <<args, stdout, pc, input, line, call>>

\* read_line gives 0: break, and the for loop goes on to the next input.
EndOfSource ==
    /\ pc = "reading"
    /\ reader[1] <= Len(args.inputs)
    /\ reader[2] = Len(args.inputs[reader[1]])
    /\ reader' = <<reader[1] + 1, 0>>
    /\ branch' = "break"
    /\ UNCHANGED <<args, runner, stdout, pc, input, line, call>>

\* File::open or read_line gives an Err: the ? operator returns it from main,
\* and runner.finish is not reached.
IoError ==
    /\ pc = "reading"
    /\ reader[1] <= Len(args.inputs)
    /\ pc' = "error"
    /\ branch' = "error"
    /\ UNCHANGED <<args, runner, stdout, input, line, call, reader>>

\* The for loop over args.inputs has ended: runner.finish(&args).
FinishAfterInputs ==
    /\ reader[1] > Len(args.inputs)
    /\ Finish
    /\ UNCHANGED reader

SourceNext ==
    \/ ReadSourceLine
    \/ EndOfSource
    \/ IoError
    \/ FinishAfterInputs

SourceSpec == SourceInit /\ [][SourceNext]_vars

(* ------------------- Granularity applied on its own --------------------- *)

\* Length of the --granularity strings tried.
MaxTextLen == 3

\* Length of the chains of successor calls.
MaxChain == 2

Alphabet == {"0", "1", "7", "+", "-", "s", "m", "h", "x"}

\* Every string of up to MaxTextLen characters, and some longer numerals.
Texts ==
    UNION { [1..k -> Alphabet] : k \in 0..MaxTextLen }
    \cup { <<"4", "2", "9", "4", "9", "6", "7", "2", "9", "6", "s">>,
           <<"0", "0", "0", "0", "0", "0", "0", "0", "0", "0", "7", "s">>,
           <<"1", "0", "0", "m">>, <<"6", "0", "s">>, <<"2", "4", "h">> }

ClockInstants ==
    { and_hms(d, h, m, s) : d \in {0, 1}, h \in {0, 10, 23}, m \in {0, 56}, s \in {0, 59} }

\* The defaults of parse_args; no input is read.
IdleRun ==
    /\ args = [match_index |-> 0, granularity |-> Minute(1),
               fill_empty_buckets |-> TRUE, mode |-> "Normal",
               order |-> "Ascending", tolerant |-> FALSE]
    /\ runner = from_mode(args.mode)
    /\ stdout = <<>>
    /\ pc = "idle"
    /\ input = <<>>
    /\ branch = "start"
    /\ line = <<>>
    /\ reader = NoReader

runVars == <<args, runner, stdout, pc, input, branch, line, reader>>

GranularityInit ==
    /\ IdleRun
    /\ \E text \in Texts :
          call = [fn |-> "parse", text |-> text, done |-> FALSE, ret |-> None]

\* Granularity::parse(text)
CallParse ==
    /\ call.fn = "parse" /\ ~call.done
    /\ call' = [call EXCEPT !.done = TRUE, !.ret = parse(call.text)]
    /\ UNCHANGED runVars

\* granularity.bucketize(&datetime), with the granularity parsed.
CallBucketize(datetime) ==
    /\ call.fn = "parse" /\ call.done /\ call.ret # None
    /\ call' = [granularity |-> call.ret[1], fn |-> "bucketize",
                datetime |-> datetime,
                bucket |-> bucketize(call.ret[1], datetime),
                chain |-> <<>>]
    /\ UNCHANGED runVars

\* granularity.successor(&bucket), on the bucket or on its last successor.
CallSuccessor ==
    /\ call.fn = "bucketize" /\ Len(call.chain) < MaxChain
    /\ LET last == IF call.chain = <<>> THEN call.bucket
                                        ELSE call.chain[Len(call.chain)]
       IN call' = [call EXCEPT !.chain = Append(@, successor(call.granularity, last))]
    /\ UNCHANGED runVars

GranularityNext ==
    \/ CallParse
    \/ \E datetime \in ClockInstants : CallBucketize(datetime)
    \/ CallSuccessor

GranularitySpec == GranularityInit /\ [][GranularityNext]_vars

(* ---------------------------- DateTimeFormat ----------------------------- *)

\* chrono::format::Item, as FormatItem keeps it (Pad is ignored by the code).
Literal(string) == <<"Literal", string>>

Space(string) == <<"Space", string>>

Numeric(numeric) == <<"Numeric", numeric>>

Fixed(fixed) == <<"Fixed", fixed>>

\* A format string is the sequence of its specifiers and other characters.
\* StrftimeItems::new(format_string): the items of one of them.
strftime_item(token) ==
    CASE token = "%Y" -> << Numeric("Year") >>
      [] token = "%m" -> << Numeric("Month") >>
      [] token = "%d" -> << Numeric("Day") >>
      [] token = "%j" -> << Numeric("Ordinal") >>
      [] token = "%H" -> << Numeric("Hour") >>
      [] token = "%I" -> << Numeric("Hour12") >>
      [] token = "%M" -> << Numeric("Minute") >>
      [] token = "%S" -> << Numeric("Second") >>
      [] token = "%s" -> << Numeric("Timestamp") >>
      [] token = "%b" -> << Fixed("ShortMonthName") >>
      [] token = "%B" -> << Fixed("LongMonthName") >>
      [] token = "%P" -> << Fixed("LowerAmPm") >>
      [] token = "%p" -> << Fixed("UpperAmPm") >>
      [] token = "%F" -> << Numeric("Year"), Literal(<<"-">>), Numeric("Month"),
                            Literal(<<"-">>), Numeric("Day") >>
      [] token = "%T" -> << Numeric("Hour"), Literal(<<":">>), Numeric("Minute"),
                            Literal(<<":">>), Numeric("Second") >>
      [] token = " " -> << Space(<<" ">>) >>
      [] OTHER -> << Literal(<<token>>) >>

RECURSIVE StrftimeItems(_)
StrftimeItems(format_string) ==
    IF format_string = <<>> THEN <<>>
    ELSE strftime_item(Head(format_string)) \o StrftimeItems(Tail(format_string))

\* numeric_format_to_regex_fragment(numeric, pad).is_some()
numeric_format_supported(numeric) ==
    numeric \in {"Year", "Month", "Day", "Hour", "Hour12", "Minute", "Second",
                 "Timestamp"}

\* fixed_format_to_regex_fragment(fixed).is_some()
fixed_format_supported(fixed) ==
    fixed \in {"ShortMonthName", "LongMonthName", "LowerAmPm", "UpperAmPm"}

\* DateTimeFormat::new: the items, or None for an unsupported specifier.
new(format_string) ==
    LET chrono_items == StrftimeItems(format_string)
        items_supported ==
            \A i \in 1..Len(chrono_items) :
                CASE chrono_items[i][1] = "Numeric" ->
                         numeric_format_supported(chrono_items[i][2])
                  [] chrono_items[i][1] = "Fixed" ->
                         fixed_format_supported(chrono_items[i][2])
                  [] OTHER -> TRUE
    IN IF items_supported THEN Some(chrono_items) ELSE None

\* numeric_format_to_default_value, with "00" for Hour12 as for Hour.
numeric_format_to_default_value_hour12_zero(numeric) ==
    CASE numeric = "Year" -> Some(<<"0", "0", "0", "1">>)
      [] numeric \in {"Month", "Day"} -> Some(<<"0", "1">>)
      [] numeric \in {"Hour", "Hour12", "Minute", "Second"} -> Some(<<"0", "0">>)
      [] numeric = "Timestamp" -> Some(<<"0", "0", "0", "0", "0", "0", "0", "0", "0">>)
      [] OTHER -> None

\* Get a dummy value for a chrono Numeric specifier.
numeric_format_to_default_value(numeric) ==
    CASE numeric = "Year" -> Some(<<"0", "0", "0", "1">>)
      [] numeric \in {"Month", "Day", "Hour12"} -> Some(<<"0", "1">>)
      [] numeric \in {"Hour", "Minute", "Second"} -> Some(<<"0", "0">>)
      [] numeric = "Timestamp" -> Some(<<"0", "0", "0", "0", "0", "0", "0", "0", "0">>)
      [] OTHER -> None

\* Get a dummy value for a chrono Fixed specifier.
fixed_format_to_default_value(fixed) ==
    CASE fixed = "ShortMonthName" -> Some(<<"J", "a", "n">>)
      [] fixed = "LongMonthName" -> Some(<<"J", "a", "n", "u", "a", "r", "y">>)
      [] fixed = "LowerAmPm" -> Some(<<"a", "m">>)
      [] fixed = "UpperAmPm" -> Some(<<"A", "M">>)
      [] OTHER -> None

\* The string has_enough_info builds from the items, one after the other;
\* expect() on a value that is there.
RECURSIVE default_values(_)
default_values(chrono_items) ==
    IF chrono_items = <<>> THEN <<>>
    ELSE LET item == Head(chrono_items)
         IN (CASE item[1] \in {"Literal", "Space"} -> item[2]
               [] item[1] = "Numeric" -> numeric_format_to_default_value(item[2])[1]
               [] item[1] = "Fixed" -> fixed_format_to_default_value(item[2])[1])
            \o default_values(Tail(chrono_items))

(* chrono's parser, as try_parse calls it: chrono::format::parse fills a
   Parsed field by field, Parsed::to_datetime_with_timezone makes the
   DateTime of the fields or fails. A ParseResult is Some(..) or None. *)

\* Parsed::new(): no field is set.
Parsed_new ==
    [f \in {"year", "month", "day", "ordinal", "hour_div_12", "hour_mod_12",
            "minute", "second", "timestamp"} |-> None]

\* Parsed::set_if_consistent: a field is set once, or again to the same value.
set_if_consistent(parsed, field, value) ==
    IF parsed[field] = None THEN Some([parsed EXCEPT ![field] = Some(value)])
    ELSE IF parsed[field] = Some(value) THEN Some(parsed)
    ELSE None

\* Parsed::set_hour: 0..=23, as hour_div_12 and hour_mod_12.
set_hour(parsed, value) ==
    IF value < 0 \/ value > 23 THEN None
    ELSE LET r == set_if_consistent(parsed, "hour_div_12", value \div 12)
         IN IF r = None THEN None
            ELSE set_if_consistent(r[1], "hour_mod_12", value % 12)

\* Parsed::set_year, set_month, set_day, set_hour, set_hour12, set_minute,
\* set_second, set_timestamp: the setter of a Numeric item, with its range.
set_numeric(parsed, numeric, value) ==
    CASE numeric = "Year" -> set_if_consistent(parsed, "year", value)
      [] numeric = "Month" ->
             IF value < 1 \/ value > 12 THEN None
             ELSE set_if_consistent(parsed, "month", value)
      [] numeric = "Day" ->
             IF value < 1 \/ value > 31 THEN None
             ELSE set_if_consistent(parsed, "day", value)
      [] numeric = "Hour" -> set_hour(parsed, value)
      [] numeric = "Hour12" ->
             IF value < 1 \/ value > 12 THEN None
             ELSE set_if_consistent(parsed, "hour_mod_12", value % 12)
      [] numeric = "Minute" ->
             IF value < 0 \/ value > 59 THEN None
             ELSE set_if_consistent(parsed, "minute", value)
      [] numeric = "Second" ->
             IF value < 0 \/ value > 60 THEN None
             ELSE set_if_consistent(parsed, "second", value)
      [] numeric = "Timestamp" -> set_if_consistent(parsed, "timestamp", value)

\* The most digits a Numeric item takes; Timestamp takes all there are.
numeric_width(numeric, s) ==
    CASE numeric = "Year" -> 4
      [] numeric = "Timestamp" -> Len(s)
      [] OTHER -> 2

\* str::trim_left
RECURSIVE trim_left(_)
trim_left(s) == IF s # <<>> /\ Head(s) = " " THEN trim_left(Tail(s)) ELSE s

\* The digits s begins with, max at most.
RECURSIVE leading_digits(_, _)
leading_digits(s, max) ==
    IF s = <<>> \/ max = 0 \/ Head(s) \notin Digits THEN <<>>
    ELSE <<Head(s)>> \o leading_digits(Tail(s), max - 1)

\* str::to_lowercase, on the letters of the month and am/pm names.
to_lower(c) ==
    CASE c = "J" -> "j" [] c = "A" -> "a" [] c = "M" -> "m" [] c = "P" -> "p"
      [] OTHER -> c

\* s begins with word, letter case ignored.
starts_with_ignoring_case(s, word) ==
    /\ Len(s) >= Len(word)
    /\ \A i \in 1..Len(word) : to_lower(s[i]) = word[i]

starts_with(s, word) == Len(s) >= Len(word) /\ SubSeq(s, 1, Len(word)) = word

drop(s, n) == SubSeq(s, n + 1, Len(s))

\* One item of the format against the text s: the Parsed and the rest of s.
\* Of the names, the text of a format's default values holds Jan(uary), am
\* and AM; pm is the other marker, every other month name is an error here.
parse_item(parsed, s, item) ==
    CASE item[1] = "Literal" ->
             IF starts_with(s, item[2]) THEN Some(<<parsed, drop(s, Len(item[2]))>>)
             ELSE None
      [] item[1] = "Space" -> Some(<<parsed, trim_left(s)>>)
      [] item[1] = "Numeric" ->
             LET t == trim_left(s)
                 d == leading_digits(t, numeric_width(item[2], t))
             IN IF d = <<>> THEN None
                ELSE LET p == set_numeric(parsed, item[2], number_of(d))
                     IN IF p = None THEN None ELSE Some(<<p[1], drop(t, Len(d))>>)
      [] item[1] = "Fixed" /\ item[2] = "ShortMonthName" ->
             IF starts_with_ignoring_case(s, <<"j", "a", "n">>)
             THEN LET p == set_if_consistent(parsed, "month", 1)
                  IN IF p = None THEN None ELSE Some(<<p[1], drop(s, 3)>>)
             ELSE None
      [] item[1] = "Fixed" /\ item[2] = "LongMonthName" ->
             IF starts_with_ignoring_case(s, <<"j", "a", "n">>)
             THEN LET p == set_if_consistent(parsed, "month", 1)
                      n == IF starts_with_ignoring_case(
                                  s, <<"j", "a", "n", "u", "a", "r", "y">>)
                           THEN 7 ELSE 3
                  IN IF p = None THEN None ELSE Some(<<p[1], drop(s, n)>>)
             ELSE None
      [] item[1] = "Fixed" /\ item[2] \in {"LowerAmPm", "UpperAmPm"} ->
             IF starts_with_ignoring_case(s, <<"a", "m">>)
                  \/ starts_with_ignoring_case(s, <<"p", "m">>)
             THEN LET p == set_if_consistent(
                               parsed, "hour_div_12",
                               IF to_lower(s[1]) = "p" THEN 1 ELSE 0)
                  IN IF p = None THEN None ELSE Some(<<p[1], drop(s, 2)>>)
             ELSE None

\* chrono::format::parse(&mut parsed, text, items): every item in turn, and
\* no text left over.
RECURSIVE format_parse(_, _, _)
format_parse(parsed, s, chrono_items) ==
    IF chrono_items = <<>> THEN (IF s = <<>> THEN Some(parsed) ELSE None)
    ELSE LET r == parse_item(parsed, s, Head(chrono_items))
         IN IF r = None THEN None
            ELSE format_parse(r[1][1], r[1][2], Tail(chrono_items))

\* Parsed::to_naive_date with the fields the supported items set: year with
\* month and day, or year with ordinal; month and day must agree with the
\* ordinal when all are there (ordinal 1 is January 1).
to_naive_date(parsed) ==
    IF parsed.year = None THEN None
    ELSE IF parsed.month # None /\ parsed.day # None
    THEN IF parsed.ordinal # None
              /\ ~(parsed.ordinal = Some(1) /\ parsed.month = Some(1)
                     /\ parsed.day = Some(1))
         THEN None
         ELSE Some(<<parsed.year[1], parsed.month[1], parsed.day[1]>>)
    ELSE IF parsed.ordinal = Some(1)
              /\ parsed.month \in {None, Some(1)} /\ parsed.day \in {None, Some(1)}
    THEN Some(<<parsed.year[1], 1, 1>>)
    ELSE None

\* Parsed::to_naive_time: hour_div_12, hour_mod_12 and minute are required,
\* second is 0 when it is not there (60 is the leap second of second 59).
to_naive_time(parsed) ==
    IF parsed.hour_div_12 = None \/ parsed.hour_mod_12 = None \/ parsed.minute = None
    THEN None
    ELSE Some(<<parsed.hour_div_12[1] * 12 + parsed.hour_mod_12[1],
                parsed.minute[1],
                IF parsed.second \in {None, Some(60)} THEN
                    (IF parsed.second = None THEN 0 ELSE 59)
                ELSE parsed.second[1]>>)

\* The year of the epoch of timestamps.
EPOCH_YEAR == 1970

\* Parsed::to_naive_datetime_with_offset(0). Date and time there: a timestamp
\* given as well must be theirs. Else with a timestamp: the fields of its
\* instant are set (here an instant of the first day of EPOCH_YEAR), and date
\* and time are made again. Else the error.
to_naive_datetime(parsed) ==
    LET naive_date == to_naive_date(parsed)
        naive_time == to_naive_time(parsed)
    IN IF naive_date # None /\ naive_time # None
       THEN IF parsed.timestamp = None
                 \/ ( /\ naive_date[1] = <<EPOCH_YEAR, 1, 1>>
                      /\ parsed.timestamp[1]
                           = and_hms(0, naive_time[1][1], naive_time[1][2], naive_time[1][3]) )
            THEN Some(<<naive_date[1], naive_time[1]>>)
            ELSE None
       ELSE IF parsed.timestamp # None /\ parsed.timestamp[1] < and_hms(1, 0, 0, 0)
       THEN LET ts == parsed.timestamp[1]
                p1 == IF parsed.second = Some(60) THEN Some(parsed)
                      ELSE set_numeric(parsed, "Second", second(ts))
                p2 == IF p1 = None THEN None
                      ELSE set_numeric(p1[1], "Year", EPOCH_YEAR)
                p3 == IF p2 = None THEN None
                      ELSE set_if_consistent(p2[1], "ordinal", 1)
                p4 == IF p3 = None THEN None ELSE set_hour(p3[1], hour(ts))
                p5 == IF p4 = None THEN None
                      ELSE set_numeric(p4[1], "Minute", minute(ts))
            IN IF p5 = None \/ to_naive_date(p5[1]) = None
                  \/ to_naive_time(p5[1]) = None
               THEN None
               ELSE Some(<<to_naive_date(p5[1])[1], to_naive_time(p5[1])[1]>>)
       ELSE None

\* DateTimeFormat::try_parse on the text itself: parse, then
\* parsed.to_datetime_with_timezone(&Utc).
try_parse_text(chrono_items, text) ==
    LET parsed == format_parse(Parsed_new, text, chrono_items)
    IN IF parsed = None THEN None ELSE to_naive_datetime(parsed[1])

\* DateTimeFormat::has_enough_info
has_enough_info(chrono_items) ==
    try_parse_text(chrono_items, default_values(chrono_items)) # None

(* ------------------ DateTimeFormat applied on its own ------------------- *)

\* Specifiers and other characters per format string.
MaxItems == 2

Tokens ==
    {"%Y", "%m", "%d", "%j", "%H", "%I", "%M", "%S", "%s", "%b", "%B", "%P", "%p",
     "%F", "%T", "-", ":", ",", " "}

\* The format strings of the test has_enough_info.
TestedFormats ==
    { <<"%Y", "-", "%m", "-", "%d", " ", "%H", ":", "%M", ":", "%S">>,
      <<"%F", " ", "%T">>,
      <<"%b", " ", "%d", ",", " ", "%Y", " ", "%I", ":", "%M", " ", "%p">> }

HourMinuteFormat == <<"%H", ":", "%M">>

Formats ==
    TestedFormats \cup { HourMinuteFormat }
      \cup UNION { [1..n -> Tokens] : n \in 0..MaxItems }

FormatInit ==
    /\ IdleRun
    /\ \E format_string \in Formats :
          call = [fn |-> "new", done |-> FALSE, ret |-> None,
                  format_string |-> format_string]

\* DateTimeFormat::new(format_string)
CallNew ==
    /\ call.fn = "new" /\ ~call.done
    /\ call' = [call EXCEPT !.done = TRUE, !.ret = new(call.format_string)]
    /\ UNCHANGED runVars

\* format.has_enough_info(), on the format that new returned.
CallHasEnoughInfo ==
    /\ call.fn = "new" /\ call.done /\ call.ret # None
    /\ call' = [fn |-> "has_enough_info",
                ret |-> has_enough_info(call.ret[1]),
                format_string |-> call.format_string,
                default_values |-> default_values(call.ret[1])]
    /\ UNCHANGED runVars

FormatNext == CallNew \/ CallHasEnoughInfo

FormatSpec == FormatInit /\ [][FormatNext]_vars

(* ---------------------- vocabulary of the properties -------------------- *)

\* The buckets passed to handle_bucket_entry so far, in order.
Entries == [i \in 1..Len(input) |-> bucketize(args.granularity, input[i])]

Recorded == { Entries[i] : i \in 1..Len(input) }

CountOf(b) == Cardinality({ i \in 1..Len(input) : Entries[i] = b })

\* One granularity unit, in seconds.
UnitSeconds(g) ==
    g.n * (CASE g.unit = "Second" -> 1 [] g.unit = "Minute" -> 60 [] g.unit = "Hour" -> 3600)

\* This step is a call of handle_bucket_entry, on the bucket EntryNow.
Handling == pc = "reading" /\ input' # input

EntryNow == bucketize(args.granularity, input'[Len(input')])

\* This step is the call of finish().
Finishing == pc = "reading" /\ pc' = "finished"

Streaming == args.mode = "Stream"

Open == Streaming /\ runner.bucket # None

\* e lies strictly after c in the configured order.
After(e, c) == IF args.order = "Ascending" THEN e > c ELSE e < c

Reverse(s) == [i \in 1..Len(s) |-> s[Len(s) + 1 - i]]

RECURSIVE AscendingRows(_)
AscendingRows(rows) ==
    IF rows = {} THEN <<>>
    ELSE LET lo == CHOOSE r \in rows : \A q \in rows : r[1] <= q[1]
         IN <<lo>> \o AscendingRows(rows \ {lo})

\* The zero rows for the buckets strictly between from and to, reached from
\* `from` one granularity unit at a time toward `to`, in ascending order.
GapRowsToward(g, from, to) ==
    LET d == UnitSeconds(g)
        n == IF to > from THEN (to - from - 1) \div d ELSE (from - to - 1) \div d
    IN [i \in 1..n |-> IF to > from THEN <<from + i * d, 0>>
                                   ELSE <<from - (n + 1 - i) * d, 0>>]

(* ------------------------------- claims -------------------------------- *)

\* C1: in stream mode with gap-filling, ascending or descending, an entry
\* that closes the current bucket writes the closed bucket's row and then one
\* zero row for every bucket between the closed and the new bucket (one
\* granularity unit at a time from the closed one, both excluded), ascending.
C1_StreamGapRows ==
    [][(Handling /\ Open /\ args.fill_empty_buckets
          /\ After(EntryNow, runner.bucket[1]))
       => stdout' = stdout \o <<<<runner.bucket[1], runner.count>>>>
                           \o GapRowsToward(args.granularity, runner.bucket[1], EntryNow)]_vars

\* The rows normal mode owes with gap-filling, in ascending order: a row per
\* recorded bucket and a zero row per step of one unit from a recorded bucket
\* up to the next recorded one.
NextRecorded(b) == CHOOSE h \in Recorded : h > b /\ \A x \in Recorded : ~(b < x /\ x < h)

FilledRowsAscending ==
    AscendingRows(
        { <<b, CountOf(b)>> : b \in Recorded }
        \cup UNION { { <<b + k * UnitSeconds(args.granularity), 0>> :
                         k \in 1..((NextRecorded(b) - b - 1) \div UnitSeconds(args.granularity)) } :
                     b \in { x \in Recorded : \E h \in Recorded : h > x } })

\* C2: in normal mode with gap-filling, ascending or descending, finish()
\* writes between two consecutive recorded buckets a zero row for every
\* missing bucket between them, in the display order of the table.
C2_BatchGapRows ==
    (pc = "finished" /\ args.mode = "Normal" /\ args.fill_empty_buckets)
    => stdout = IF args.order = "Ascending" THEN FilledRowsAscending
                                            ELSE Reverse(FilledRowsAscending)

\* C3: in stream mode without --tolerant, an entry before the current bucket
\* in the configured order ends the run: nothing is written by that call, and
\* nothing runs afterwards (no row of the open bucket, no finish()).
C3_NonMonotonicIsFatal ==
    [][/\ (Handling /\ Open /\ ~args.tolerant /\ After(runner.bucket[1], EntryNow))
          => (pc' = "panicked" /\ stdout' = stdout)
       /\ pc # "panicked"]_vars

C3_Witness ==
    pc = "panicked" /\ branch = "nonmonotonic" /\ ~args.tolerant /\ Len(stdout) > 0

Scenario4 ==
    /\ args.mode = "Stream" /\ args.order = "Ascending" /\ ~args.tolerant
    /\ args.granularity = Minute(1)
    /\ input = <<and_hms(0, 10, 0, 30), and_hms(0, 10, 0, 45), and_hms(0, 9, 59, 0)>>

\* C4 as stated: stream, ascending, intolerant, 1m: after 10:00:30, 10:00:45,
\* 09:59:00 the output is the row 10:00,2 and the run has ended fatally.
C4_AsStated ==
    Scenario4 => (pc = "panicked" /\ stdout = <<<<and_hms(0, 10, 0, 0), 2>>>>)

\* C4: stream, ascending, intolerant, 1m: after 10:00:30, 10:00:45, 09:59:00
\* the run has ended with the fatal non-monotonic error and has written no
\* row at all: the row 10:00,2 of the open bucket is never written.
C4_FatalWithoutOutput ==
    Scenario4 => (pc = "panicked" /\ stdout = <<>>
                  /\ runner.bucket = Some(and_hms(0, 10, 0, 0)) /\ runner.count = 2)

C4_Witness == Scenario4 /\ pc = "panicked"

\* C5: in stream mode with --tolerant, a non-monotonic entry writes nothing
\* and leaves bucket and count as they were, the run goes on, and finish()
\* then writes the open bucket with that unchanged count.
C5_TolerantDiscards ==
    [][/\ (Handling /\ Open /\ args.tolerant /\ After(runner.bucket[1], EntryNow))
          => (pc' = "reading" /\ stdout' = stdout /\ runner' = runner)
       /\ (Finishing /\ Open /\ args.tolerant)
          => stdout' = Append(stdout, <<runner.bucket[1], runner.count>>)]_vars

\* The example of the spec: 10:00:30, 10:00:45, then 09:59:00 discarded, and
\* finish() writes 10:00,2.
C5_Witness ==
    /\ pc = "finished" /\ args.tolerant /\ args.order = "Ascending"
    /\ args.granularity = Minute(1)
    /\ input = <<and_hms(0, 10, 0, 30), and_hms(0, 10, 0, 45), and_hms(0, 9, 59, 0)>>
    /\ stdout = <<<<and_hms(0, 10, 0, 0), 2>>>>

\* C6: in stream mode an entry after the current bucket in the configured
\* order writes, in that same call, the row of the closed bucket first, only
\* zero rows after it, and leaves the new bucket open with count 1.
C6_ClosedRowAtOnce ==
    [][(Handling /\ Open /\ After(EntryNow, runner.bucket[1]))
       => /\ Len(stdout') > Len(stdout)
          /\ SubSeq(stdout', 1, Len(stdout)) = stdout
          /\ stdout'[Len(stdout) + 1] = <<runner.bucket[1], runner.count>>
          /\ \A i \in (Len(stdout) + 2)..Len(stdout') : stdout'[i][2] = 0
          /\ runner'.bucket = Some(EntryNow)
          /\ runner'.count = 1
          /\ pc' = "reading"]_vars

C6_Witness ==
    /\ Open /\ branch = "advance" /\ Len(stdout) >= 3
    /\ stdout[Len(stdout)][2] = 0 /\ stdout[Len(stdout) - 2][2] >= 2

\* C7: in normal mode finish() writes each recorded bucket exactly once, with
\* the number of entries recorded for it, and the recorded buckets are in
\* ascending or descending order as configured.
C7_BatchCountsSorted ==
    (pc = "finished" /\ args.mode = "Normal")
    => /\ \A b \in Recorded :
            /\ Cardinality({ i \in 1..Len(stdout) : stdout[i][1] = b }) = 1
            /\ \E i \in 1..Len(stdout) : stdout[i] = <<b, CountOf(b)>>
       /\ \A i, j \in 1..Len(stdout) :
            (i < j /\ stdout[i][1] \in Recorded /\ stdout[j][1] \in Recorded)
            => IF args.order = "Ascending" THEN stdout[i][1] < stdout[j][1]
                                           ELSE stdout[i][1] > stdout[j][1]

C7_Witness ==
    /\ pc = "finished" /\ args.mode = "Normal" /\ args.order = "Descending"
    /\ Cardinality(Recorded) >= 3
    /\ \E b \in Recorded : CountOf(b) >= 2

\* The granularity divides its unit scope (the minute, the hour, the day).
DividesScope(g) == IF g.unit = "Hour" THEN 24 % g.n = 0 ELSE 60 % g.n = 0

\* C8: in normal mode, ascending, with gap-filling and a granularity that
\* divides its unit scope, the output is the contiguous series of buckets from
\* the smallest to the largest recorded one, each with its number of entries.
C8_BatchContiguous ==
    (pc = "finished" /\ args.mode = "Normal" /\ args.order = "Ascending"
       /\ args.fill_empty_buckets /\ DividesScope(args.granularity) /\ input # <<>>)
    => LET d  == UnitSeconds(args.granularity)
           lo == CHOOSE b \in Recorded : \A x \in Recorded : b <= x
           hi == CHOOSE b \in Recorded : \A x \in Recorded : b >= x
       IN stdout = [i \in 1..((hi - lo) \div d + 1) |->
                        <<lo + (i - 1) * d, CountOf(lo + (i - 1) * d)>>]

\* The example of the spec: 10:00:00, 10:00:00, 10:02:00 at 1m.
C8_Witness ==
    /\ pc = "finished" /\ args.mode = "Normal" /\ args.order = "Ascending"
    /\ args.fill_empty_buckets /\ args.granularity = Minute(1)
    /\ input = <<and_hms(0, 10, 0, 0), and_hms(0, 10, 0, 0), and_hms(0, 10, 2, 0)>>
    /\ stdout = << <<and_hms(0, 10, 0, 0), 2>>, <<and_hms(0, 10, 1, 0), 0>>,
                   <<and_hms(0, 10, 2, 0), 1>> >>

\* C9: in stream mode finish() writes the one row of the open bucket and
\* nothing after it, and writes nothing when no entry was ever accepted.
C9_StreamFinish ==
    [][(Finishing /\ Streaming)
       => stdout' = IF runner.bucket # None
                    THEN Append(stdout, <<runner.bucket[1], runner.count>>)
                    ELSE stdout]_vars

C9_Witness ==
    /\ pc = "finished" /\ Streaming /\ args.fill_empty_buckets
    /\ Len(stdout) >= 2 /\ stdout[Len(stdout)] = <<runner.bucket[1], runner.count>>

\* C10: in stream mode the first entry opens its bucket with count 1 and
\* writes nothing, and while the run is reading no row of stdout is for the
\* bucket that is open.
C10_FirstEntryNoOutput ==
    [][/\ (Handling /\ Streaming /\ runner.bucket = None)
          => /\ runner'.bucket = Some(EntryNow)
             /\ runner'.count = 1
             /\ stdout' = stdout
             /\ pc' = "reading"
       /\ (Streaming /\ pc' = "reading" /\ runner'.bucket # None)
          => \A i \in 1..Len(stdout') : stdout'[i][1] # runner'.bucket[1]]_vars

C10_Witness ==
    /\ Streaming /\ pc = "reading" /\ branch = "first"
    /\ Len(input) = 1 /\ runner.bucket = Some(Entries[1]) /\ runner.count = 1
    /\ stdout = <<>>

(* --------------------- claims about Granularity ------------------------- *)

Bucketized == call.fn = "bucketize"

\* C11: for every granularity and instant x, floor(floor(x)) = floor(x),
\* floor(x) <= x, the unit component of floor(x) is (component / n) * n with
\* the smaller components zero and the larger ones those of x, and
\* successor(floor(x)) > floor(x).
C11_FloorProperties ==
    Bucketized =>
      LET g == call.granularity
          x == call.datetime
          b == call.bucket
      IN /\ bucketize(g, b) = b
         /\ b <= x
         /\ date(b) = date(x)
         /\ g.unit = "Second" =>
               /\ hour(b) = hour(x) /\ minute(b) = minute(x)
               /\ second(b) = (second(x) \div g.n) * g.n
         /\ g.unit = "Minute" =>
               /\ hour(b) = hour(x)
               /\ minute(b) = (minute(x) \div g.n) * g.n
               /\ second(b) = 0
         /\ g.unit = "Hour" =>
               /\ hour(b) = (hour(x) \div g.n) * g.n
               /\ minute(b) = 0 /\ second(b) = 0
         /\ successor(g, b) > b

\* 7m at 23:56:59 of day 1: the minute goes down to 56, the seconds to 0.
C11_Witness ==
    /\ Bucketized /\ call.granularity = Minute(7)
    /\ call.datetime = and_hms(1, 23, 56, 59)
    /\ call.bucket = and_hms(1, 23, 56, 0)

\* C12: for every granularity and valid bucket b, successor(b) > b and
\* successor(b) is a valid bucket, so every element of a chain of successor
\* calls from a bucket is a valid bucket (and the chain increases).
C12_SuccessorIsBucket ==
    Bucketized =>
      \A i \in 1..Len(call.chain) :
         /\ call.chain[i] > (IF i = 1 THEN call.bucket ELSE call.chain[i - 1])
         /\ bucketize(call.granularity, call.chain[i]) = call.chain[i]

(* -------------------- claims about Granularity::parse ------------------- *)

Parsed == call.fn = "parse" /\ call.done

UnitLetters == {"s", "m", "h"}

UnitOf(c) == CASE c = "s" -> "Second" [] c = "m" -> "Minute" [] c = "h" -> "Hour"

\* One or more digits.
IsNumeral(p) == p # <<>> /\ \A i \in 1..Len(p) : p[i] \in Digits

\* A decimal integer above zero, with or without a plus sign.
IsPositiveInteger(p) ==
    /\ IsNumeral(p) \/ (Len(p) >= 2 /\ p[1] = "+" /\ IsNumeral(Tail(p)))
    /\ \E i \in 1..Len(p) : p[i] \in Digits \ {"0"}

RECURSIVE DecimalValue(_, _)
DecimalValue(p, acc) ==
    IF p = <<>> THEN acc
    ELSE DecimalValue(Tail(p), IF Head(p) = "+" THEN acc
                               ELSE 10 * acc + digit_value(Head(p)))

\* The number written is at most u32::MAX = 4294967295.
FitsU32(p) ==
    LET d == strip_zeros(IF Head(p) = "+" THEN Tail(p) ELSE p)
    IN \/ Len(d) < 10
       \/ /\ Len(d) = 10
          /\ \/ d = U32_MAX_DIGITS
             \/ \E i \in 1..10 : /\ digit_value(d[i]) < digit_value(U32_MAX_DIGITS[i])
                                 /\ \A j \in 1..(i - 1) : d[j] = U32_MAX_DIGITS[j]

\* The text is <n>s, <n>m or <n>h with n a positive integer in digits.
IsGranularityText(t) ==
    /\ Len(t) >= 2
    /\ t[Len(t)] \in UnitLetters
    /\ IsNumeral(SubSeq(t, 1, Len(t) - 1))
    /\ IsPositiveInteger(SubSeq(t, 1, Len(t) - 1))

\* No unit letter of the text has a positive integer before it: the text has
\* no unit letter, or the magnitude is zero or negative, or the text before
\* the letter is empty or not a number.
Rejectable(t) ==
    \A i \in 1..Len(t) :
        t[i] \in UnitLetters => ~IsPositiveInteger(SubSeq(t, 1, i - 1))

\* C15 as stated: parse returns None for a zero or negative magnitude, a
\* prefix that is no decimal integer, or no unit letter, and Second(n),
\* Minute(n) or Hour(n) for <n>s, <n>m, <n>h with n any positive integer.
C15_AsStated ==
    Parsed =>
      /\ Rejectable(call.text) => call.ret = None
      /\ IsGranularityText(call.text) =>
            /\ call.ret # None
            /\ call.ret[1] = [n |-> DecimalValue(SubSeq(call.text, 1, Len(call.text) - 1), 0),
                              unit |-> UnitOf(call.text[Len(call.text)])]

\* C15: as above, with Second(n), Minute(n) or Hour(n) returned for n a
\* positive integer of at most u32::MAX, and None for a larger n.
C15_ParseU32 ==
    Parsed =>
      /\ Rejectable(call.text) => call.ret = None
      /\ IsGranularityText(call.text) =>
            IF FitsU32(SubSeq(call.text, 1, Len(call.text) - 1))
            THEN /\ call.ret # None
                 /\ call.ret[1] = [n |-> DecimalValue(SubSeq(call.text, 1, Len(call.text) - 1), 0),
                                   unit |-> UnitOf(call.text[Len(call.text)])]
            ELSE call.ret = None

C15_Witness ==
    Parsed /\ call.text = <<"1", "7", "m">> /\ call.ret = Some(Minute(17))

\* The first unit character of the text, if it has one.
HasUnitLetter(t) == \E i \in 1..Len(t) : t[i] \in UnitLetters

FirstUnitIndex(t) ==
    CHOOSE i \in 1..Len(t) :
        t[i] \in UnitLetters /\ \A j \in 1..(i - 1) : t[j] \notin UnitLetters

C13_RowsAligned ==
    \A i \in 1..Len(stdout) :
        bucketize(args.granularity, stdout[i][1]) = stdout[i][1]

\* C14: in normal mode with gap-filling no zero row is before the smallest or
\* after the largest recorded bucket: the first and the last row are recorded
\* buckets with a count of 1 or more, and without input there is no row.
C14_NoOuterFill ==
    (pc = "finished" /\ args.mode = "Normal" /\ args.fill_empty_buckets)
    => IF input = <<>> THEN stdout = <<>>
       ELSE /\ stdout # <<>>
            /\ stdout[1][1] \in Recorded /\ stdout[1][2] >= 1
            /\ stdout[Len(stdout)][1] \in Recorded /\ stdout[Len(stdout)][2] >= 1
            /\ \A i \in 1..Len(stdout) :
                  /\ \E b \in Recorded : b <= stdout[i][1]
                  /\ \E b \in Recorded : b >= stdout[i][1]

C14_Witness ==
    /\ pc = "finished" /\ args.mode = "Normal" /\ args.fill_empty_buckets
    /\ Len(stdout) >= 3
    /\ \E i \in 2..(Len(stdout) - 1) : stdout[i][2] = 0

\* The i-th entry was not discarded as non-monotonic (stream mode): no entry
\* before it lies after it in the configured order.
AcceptedAt(i) ==
    args.mode = "Normal" \/ \A k \in 1..(i - 1) : ~After(Entries[k], Entries[i])

\* C20: with --no-fill no row has a count of 0, in normal and in stream mode:
\* every row has a count of 1 or more and is for a bucket of an accepted entry.
C20_NoFillNoZeroRows ==
    ~args.fill_empty_buckets
    => \A i \in 1..Len(stdout) :
          /\ stdout[i][2] >= 1
          /\ \E j \in 1..Len(input) : AcceptedAt(j) /\ Entries[j] = stdout[i][1]

\* Two rows more than one granularity unit apart: a bucket without entries
\* lies between them and has no row.
C20_Witness ==
    /\ ~args.fill_empty_buckets /\ pc = "finished" /\ Len(stdout) = 2
    /\ stdout[2][1] - stdout[1][1] > UnitSeconds(args.granularity)

(* ------------------------ claims about the lines ------------------------ *)

\* This step reads a line (the line is line' afterwards).
ReadingLine == pc = "reading" /\ branch' # "finish"

\* C17: a line without a match at the match index, and a line whose match
\* does not parse, leave the runner as it was, write no row and do not stop
\* the run, which goes on reading.
C17_SkippedLines ==
    [][(ReadingLine
          /\ (Len(line') <= args.match_index
                \/ ~line'[args.match_index + 1].parses))
       => /\ runner' = runner
          /\ stdout' = stdout
          /\ input' = input
          /\ pc' = "reading"]_vars

C17_Witness ==
    /\ Open /\ pc = "reading" /\ branch = "parsefail" /\ Len(stdout) >= 1
    /\ Len(line) > args.match_index

\* C18: with k matches in the line and match index i, the timestamp of the
\* line is that of match i + 1 when i < k, the line is skipped as without
\* match when i >= k, and no other match gives an entry.
C18_MatchAtIndex ==
    [][ReadingLine
       => IF args.match_index < Len(line')
          THEN IF line'[args.match_index + 1].parses
               THEN input' = Append(input, line'[args.match_index + 1].datetime)
               ELSE input' = input
          ELSE input' = input /\ branch' = "nomatch"]_vars

C18_Witness ==
    /\ args.match_index = 1 /\ Len(line) = 2 /\ pc = "reading"
    /\ line[1].parses /\ line[2].parses /\ line[1] # line[2]
    /\ input = <<line[2].datetime>>

(* ------------------------ claims about the format ----------------------- *)

\* The format string names the specifier.
Names(format_string, token) ==
    \E i \in 1..Len(format_string) : format_string[i] = token

\* The specifiers give year, month and day.
NamesDate(f) ==
    \/ Names(f, "%F")
    \/ /\ Names(f, "%Y")
       /\ Names(f, "%m") \/ Names(f, "%b") \/ Names(f, "%B")
       /\ Names(f, "%d")

\* The specifiers give the hour of the day and the minute.
NamesTime(f) ==
    \/ Names(f, "%T")
    \/ /\ Names(f, "%H") \/ (Names(f, "%I") /\ (Names(f, "%p") \/ Names(f, "%P")))
       /\ Names(f, "%M")

\* C19: has_enough_info accepts the formats that combine date and time
\* specifiers (year, month, day, hour, minute, second; %F %T; named month
\* with numeric day and year and 12-hour time with am/pm) and rejects the
\* format of hour and minute only; the string built from the default values
\* is what the parser is given: what is accepted names a date and a time (or
\* a timestamp), and the string holds the default of every item.
C19_HasEnoughInfo ==
    call.fn = "has_enough_info"
    => /\ call.format_string \in TestedFormats => call.ret
       /\ call.format_string = HourMinuteFormat => ~call.ret
       /\ call.ret => \/ Names(call.format_string, "%s")
                      \/ NamesDate(call.format_string) /\ NamesTime(call.format_string)
       /\ Names(call.format_string, "%Y")
            => \E i \in 1..(Len(call.default_values) - 3) :
                  SubSeq(call.default_values, i, i + 3) = <<"0", "0", "0", "1">>

C19_Witness ==
    /\ call.fn = "has_enough_info" /\ call.ret
    /\ call.format_string
         = <<"%b", " ", "%d", ",", " ", "%Y", " ", "%I", ":", "%M", " ", "%p">>
    /\ call.default_values
         = <<"J", "a", "n", " ", "0", "1", ",", " ", "0", "0", "0", "1", " ",
             "0", "1", ":", "0", "0", " ", "A", "M">>

(* -------------------- claims relating two runs of main ------------------ *)

\* s with its elements i and i + 1 exchanged.
Swapped(s, i) ==
    [j \in 1..Len(s) |-> IF j = i THEN s[i + 1] ELSE IF j = i + 1 THEN s[i] ELSE s[j]]

\* C21: in normal mode the rows written do not depend on the order of the
\* entries: the run on the input with two neighbouring lines exchanged writes
\* the rows this run wrote. (Every sequence of lines is the input of a run,
\* and exchanges of neighbours make every permutation.)
C21_OrderIrrelevant ==
    (pc = "finished" /\ args.mode = "Normal")
    => \A i \in 1..(Len(input) - 1) : main_output(Swapped(input, i), args) = stdout

C21_Witness ==
    /\ pc = "finished" /\ args.mode = "Normal" /\ Len(input) >= 3
    /\ Entries[1] > Entries[2] /\ Entries[2] < Entries[3]
    /\ Len(stdout) >= 2

\* The entries of bucket b that were not discarded.
AcceptedCountOf(b) ==
    Cardinality({ j \in 1..Len(input) : AcceptedAt(j) /\ Entries[j] = b })

\* Every row with a count other than 0 has the number of accepted entries of
\* its bucket as its count.
NonZeroCountsRight ==
    \A i \in 1..Len(stdout) :
        stdout[i][2] # 0 => stdout[i][2] = AcceptedCountOf(stdout[i][1])

\* C22: in stream mode a row with a count other than 0 has the number of
\* accepted entries of its bucket as its count, and an entry for the current
\* bucket adds exactly one to the count and writes nothing.
C22_StreamCounts ==
    [][Streaming
       => /\ NonZeroCountsRight'
          /\ (Handling /\ Open /\ runner.bucket = Some(EntryNow))
               => /\ runner'.count = runner.count + 1
                  /\ runner'.bucket = runner.bucket
                  /\ stdout' = stdout]_vars

C22_Witness ==
    /\ Streaming /\ pc = "finished" /\ Len(stdout) >= 2
    /\ stdout[1][2] >= 2 /\ stdout[Len(stdout)][2] >= 2

NonZero(row) == row[2] # 0

\* Each row is for a bucket strictly after that of the row before it.
StrictlyOrdered(rows) ==
    \A i \in 1..(Len(rows) - 1) : After(rows[i + 1][1], rows[i][1])

\* C24: in stream mode the rows with a count other than 0 are for strictly
\* increasing buckets in ascending order and strictly decreasing buckets in
\* descending order (no bucket has two such rows); in ascending order with
\* gap-filling all the rows, zero rows included, are strictly increasing.
C24_StreamRowsOrdered ==
    Streaming
    => /\ StrictlyOrdered(SelectSeq(stdout, NonZero))
       /\ (args.order = "Ascending" /\ args.fill_empty_buckets)
            => StrictlyOrdered(stdout)

C24_Witness ==
    /\ Streaming /\ args.tolerant /\ pc = "finished"
    /\ \E j \in 1..Len(input) : ~AcceptedAt(j)
    /\ Len(SelectSeq(stdout, NonZero)) >= 3
    /\ Len(stdout) > Len(SelectSeq(stdout, NonZero))

\* C25: for an input that is monotonic in the configured order, stream mode
\* writes the rows that normal mode writes for the same lines, granularity,
\* order and gap-filling.
C25_StreamAsNormal ==
    (Streaming /\ pc = "finished" /\ \A j \in 1..Len(input) : AcceptedAt(j))
    => stdout = main_output(input, [args EXCEPT !.mode = "Normal", !.tolerant = FALSE])

C25_Witness ==
    /\ Streaming /\ pc = "finished" /\ \A j \in 1..Len(input) : AcceptedAt(j)
    /\ args.fill_empty_buckets /\ args.order = "Ascending"
    /\ Len(stdout) >= 3
    /\ \E i \in 1..Len(stdout) : stdout[i][2] = 0
    /\ \E i \in 1..Len(stdout) : stdout[i][2] >= 2

\* The lines of the input whose entry was not discarded, from line i on.
RECURSIVE AcceptedFrom(_)
AcceptedFrom(i) ==
    IF i > Len(input) THEN <<>>
    ELSE (IF AcceptedAt(i) THEN <<input[i]>> ELSE <<>>) \o AcceptedFrom(i + 1)

RECURSIVE SumOfCounts(_)
SumOfCounts(rows) ==
    IF rows = <<>> THEN 0 ELSE Head(rows)[2] + SumOfCounts(Tail(rows))

\* C26: in tolerant stream mode the rows written are those written for the
\* input without its discarded lines, and the counts of the rows add up to
\* the number of lines not discarded.
C26_DiscardedNoInfluence ==
    (Streaming /\ args.tolerant /\ pc = "finished")
    => /\ stdout = main_output(AcceptedFrom(1), args)
       /\ SumOfCounts(stdout) = Len(AcceptedFrom(1))

C26_Witness ==
    /\ Streaming /\ args.tolerant /\ pc = "finished"
    /\ Len(input) = 4 /\ ~AcceptedAt(2) /\ ~AcceptedAt(4)
    /\ Len(stdout) >= 2

(* ------------------------ claims about the inputs ----------------------- *)

\* The lines of the first i inputs, in order.
RECURSIVE LinesOfInputs(_)
LinesOfInputs(i) ==
    IF i = 0 THEN <<>> ELSE LinesOfInputs(i - 1) \o args.inputs[i]

\* The lines read when the reader is at <<i, n>>.
LinesRead ==
    LinesOfInputs(reader[1] - 1)
      \o (IF reader[1] <= Len(args.inputs)
          THEN SubSeq(args.inputs[reader[1]], 1, reader[2])
          ELSE <<>>)

\* C23: the inputs are read in the given order, each to its end before the
\* next begins; the one runner is carried from input to input, so that runner
\* and rows are those of the read loop over all the lines read so far as one
\* input (the first entry of a later input meets the bucket the earlier one
\* left open); finish() is called after the last input only, and once.
C23_InputsInOrder ==
    LET looped == read_loop(from_mode(args.mode), <<>>, LinesRead, args)
    IN /\ input = LinesRead
       /\ pc # "finished" => runner = looped.runner /\ stdout = looped.written
       /\ pc = "panicked" <=> looped.panic
       /\ pc = "finished"
            => /\ reader[1] = Len(args.inputs) + 1
               /\ LinesRead = LinesOfInputs(Len(args.inputs))
               /\ stdout = main_output(LinesOfInputs(Len(args.inputs)), args)

\* The first line of the second input came to the bucket that the first
\* input left open and was counted in it.
C23_Witness ==
    /\ Streaming /\ pc = "finished" /\ Len(args.inputs) = 2
    /\ Len(args.inputs[1]) = 2 /\ Len(args.inputs[2]) = 2
    /\ args.inputs[1][1] < args.inputs[1][2]
    /\ args.inputs[2][1] = args.inputs[1][2]
    /\ args.order = "Ascending" /\ args.fill_empty_buckets
    /\ Len(stdout) = 3 /\ stdout[3][2] = 3

====
